---- MODULE Spec2Model ----
(***************************************************************************)
(* Mirror, Mirror affirmation endpoint: the fixed-window rate limiter      *)
(* (rateLimitOk over the map bucket), the opener rotator                   *)
(* (pickNonRepeatingOpener over the map OPENER_HISTORY) and the request    *)
(* handler that calls both.                                                *)
(***************************************************************************)
EXTENDS Integers, Sequences, FiniteSets, TLC

\* ------------------------------------------------------------------ bounds
MaxLimit == 3
MaxWindow == 2
MaxNow == 3
MaxCalls == 4
MaxDays == 1
MaxBank == 3
MaxKeep == 2
MaxPicks == 3
MaxWindows == 2
MaxInFlight == 2
MaxRequests == 2
MaxInstances == 2
MaxHeaderLen == 2
MaxEntryLen == 1
MaxList == 1
MaxKeyCalls == 2
MaxTextLen == 2
MaxNameLen == 2
MaxEvals == 3

\* ------------------------------------------------------- program constants
None == "none"

\* client keys: an address taken from the headers, or the sentinel
Keys == {"10.0.0.1", "unknown"}

\* now + 24 * 60 * 60 * 1000
\* safeName: slice(0, 40)
NameCut == 40

DayMs == 24 * 60 * 60 * 1000

\* for (let i = 0; i < 12; i++)
Attempts == 12

\* rateLimitOk(ip, 30, 10 * 60 * 1000)
RateLimit == 30
WindowMs == 10 * 60 * 1000

\* pickNonRepeatingOpener(mode, ip, [...OPENER_BANK[mode]], 20)
KeepLast == 20

\* type DayMode
Modes == {"morning", "afternoon", "evening", "bedtime"}

\* the client of a run (the direct calls of the rotator and the requests of
\* the handler are made for it) and the day mode of the direct calls
CallIps == {"10.0.0.1"}
CallModes == {"morning"}

\* the clients of the direct calls made for several keys: the two of Keys and
\* one whose identifier holds the separator and the name of a mode
OpenerIps == Keys \cup {"10.0.0.1:morning"}

\* (fault) the key is the client alone
OpenerKeyIpOnly(ip, mode) == ip

\* `${ip}:${mode}`
OpenerKey(ip, mode) == ip \o ":" \o mode

\* the (client, category) pairs a list is kept for
Pairs == OpenerIps \X Modes

OKeys == {OpenerKey(p[1], p[2]) : p \in Pairs}

\* openers are compared by value only: an opener is modelled by a number,
\* undefined (a read past the end of the bank) by NoItem
NoItem == 0

VARIABLES
    now,        \* Date.now()
    bucket,     \* Map<string, {count, resetAt}>; None = key absent
    limit,      \* the limit argument of the rateLimitOk calls
    windowMs,   \* the windowMs argument of the rateLimitOk calls
    calls,      \* per key: number of rateLimitOk calls made so far
    stale,      \* per key: some call was made after the stored resetAt
    last,       \* the latest rateLimitOk call: its arguments, the entry it found, its result
    OPENER_HISTORY, \* Map<string, {items, resetAt}>
    bank,       \* the bank argument of the direct pickNonRepeatingOpener calls
    keepLast,   \* the keepLast argument of the direct pickNonRepeatingOpener calls
    op,         \* the pickNonRepeatingOpener call in progress: its arguments, the entry it
                \* found, its loop counter, the number of draws made, the candidate that
                \* the last turn of the loop rejected, the item returned
    served,     \* per (client, category) pair: the keepLast items returned last in the current history window, latest first
    picks,      \* number of pickNonRepeatingOpener calls made so far
    req,        \* the handler invocations in flight: position, locals, response
    running,    \* the invocation whose synchronous turn is executing, 0 = event loop idle
    started,    \* number of handler invocations so far
    OpenAIClass, \* the SDK class has been imported
    admitted,   \* per key: time -> number of requests the handler's limiter allowed then
    fleet,      \* per process instance: its own map bucket, and per key: time ->
                \* number of requests the instance allowed then
    eval,       \* the evaluation of a pure function: its name, arguments and value
    gen         \* the generate-and-filter part of an invocation of the filtering handler

limiterVars == <<bucket, limit, windowMs, calls, stale, last, fleet>>
openerVars == <<OPENER_HISTORY, bank, keepLast, op, served, picks>>
handlerVars == <<req, running, started, OpenAIClass, admitted>>
auxVars == <<eval, gen>>
vars == <<now, bucket, limit, windowMs, calls, stale, last,
          OPENER_HISTORY, bank, keepLast, op, served, picks,
          req, running, started, OpenAIClass, admitted, fleet, eval, gen>>

\* ------------------------------------------------------------ rate limiter

\* bucket.get(key) is defined
Has(m, key) == key \in DOMAIN m

\* (fault) the expiry test is not strict: the window ends one instant early
ExpiredAtBoundary(b, key, t) == ~Has(b, key) \/ t >= b[key].resetAt

\* (fault) the expiry test left out: only an absent key starts a window
ExpiredOnlyAbsent(b, key, t) == ~Has(b, key)

\* if (!cur || now > cur.resetAt)
Expired(b, key, t) == ~Has(b, key) \/ t > b[key].resetAt

\* (fault) the quota test left out
ExhaustedNever(cur, lim) == FALSE

\* (fault) the quota test off by one
ExhaustedOffByOne(cur, lim) == cur.count > lim

\* if (cur.count >= limit)
Exhausted(cur, lim) == cur.count >= lim

\* (fault) a denied call pushes the end of the window forward
RateLimitEntryExtends(b, key, t, lim, win) ==
    IF Expired(b, key, t) THEN [count |-> 1, resetAt |-> t + win]
    ELSE IF Exhausted(b[key], lim) THEN [b[key] EXCEPT !.resetAt = t + win]
    ELSE [b[key] EXCEPT !.count = @ + 1]

\* (fault) a denied call is counted too
RateLimitEntryCountsDenied(b, key, t, lim, win) ==
    IF Expired(b, key, t) THEN [count |-> 1, resetAt |-> t + win]
    ELSE [b[key] EXCEPT !.count = @ + 1]

\* the entry held for the key when rateLimitOk returns
RateLimitEntry(b, key, t, lim, win) ==
    IF Expired(b, key, t) THEN [count |-> 1, resetAt |-> t + win]
    ELSE IF Exhausted(b[key], lim) THEN b[key]
    ELSE [b[key] EXCEPT !.count = @ + 1]

\* (fault) remaining computed from the count before its increment
RateLimitResultBeforeIncrement(b, key, t, lim, win) ==
    IF Expired(b, key, t) THEN [ok |-> TRUE, remaining |-> lim - 1]
    ELSE IF Exhausted(b[key], lim) THEN [ok |-> FALSE, remaining |-> 0]
    ELSE [ok |-> TRUE, remaining |-> lim - b[key].count]

\* the value rateLimitOk returns
RateLimitResult(b, key, t, lim, win) ==
    IF Expired(b, key, t) THEN [ok |-> TRUE, remaining |-> lim - 1]
    ELSE IF Exhausted(b[key], lim) THEN [ok |-> FALSE, remaining |-> 0]
    ELSE [ok |-> TRUE, remaining |-> lim - (b[key].count + 1)]

\* (fault) one entry object shared by every key of the map
MapSetShared(m, key, e) == [k \in DOMAIN m \cup {key} |-> e]

\* map.set(key, entry)
MapSet(m, key, e) == [k \in DOMAIN m \cup {key} |-> IF k = key THEN e ELSE m[k]]

\* the entry a call found: empty when the key was absent
Found(m, key) == IF Has(m, key) THEN {m[key]} ELSE {}

\* one call rateLimitOk(key, lim, win) at time now
rateLimitOk(key, lim, win) ==
    LET r == RateLimitResult(bucket, key, now, lim, win)
    IN  /\ calls[key] < MaxCalls
        /\ bucket' = MapSet(bucket, key, RateLimitEntry(bucket, key, now, lim, win))
        /\ calls' = [calls EXCEPT ![key] = @ + 1]
        /\ stale' = [stale EXCEPT ![key] =
                        @ \/ (Has(bucket, key) /\ now > bucket[key].resetAt)]
        /\ last' = [key |-> key, at |-> now, pre |-> Found(bucket, key),
                    ok |-> r.ok, remaining |-> r.remaining]

\* a direct call with the arguments of this run
RateLimitCall ==
    /\ \E key \in Keys : rateLimitOk(key, limit, windowMs)
    /\ UNCHANGED <<now, limit, windowMs, fleet>>
    /\ UNCHANGED auxVars
    /\ UNCHANGED openerVars
    /\ UNCHANGED handlerVars

\* ----------------------------------------------------------- opener rotator

Min(a, b) == IF a <= b THEN a ELSE b

Range(s) == {s[i] : i \in DOMAIN s}

\* (fault) the candidate is compared with the newest item only
IncludesNewest(items, c) == Len(items) > 0 /\ items[1] = c

\* state.items.includes(candidate)
Includes(items, c) == c \in Range(items)

\* (fault) the cut keeps one item too many
SliceOneMore(items, keep) == SubSeq(items, 1, Min(keep + 1, Len(items)))

\* items.slice(0, keepLast), keepLast >= 0
Slice(items, keep) == SubSeq(items, 1, Min(keep, Len(items)))

\* (fault) Math.ceil in place of Math.floor: the index can be bank.length
DrawIndicesCeil(bk) == 1..(Len(bk) + 1)

\* Math.floor(Math.random() * bank.length), as a position 1..length
DrawIndices(bk) == 1..Len(bk)

\* bank[index]
BankAt(bk, idx) == IF idx \in DOMAIN bk THEN bk[idx] ELSE NoItem

\* if (!cur || now > cur.resetAt)
HistoryExpired(h, key, t) == ~Has(h, key) \/ t > h[key].resetAt

\* (fault) every call renews resetAt: the 24 hours slide with the picks
HistoryInitRenews(h, key, t) ==
    IF HistoryExpired(h, key, t)
    THEN MapSet(h, key, [items |-> <<>>, resetAt |-> t + DayMs])
    ELSE MapSet(h, key, [h[key] EXCEPT !.resetAt = t + DayMs])

\* (fault) expiry renews resetAt and keeps the recency list
HistoryInitKeepsItems(h, key, t) ==
    IF ~Has(h, key) THEN MapSet(h, key, [items |-> <<>>, resetAt |-> t + DayMs])
    ELSE IF t > h[key].resetAt THEN MapSet(h, key, [h[key] EXCEPT !.resetAt = t + DayMs])
    ELSE h

\* the map after the expiry test at the head of pickNonRepeatingOpener
HistoryInit(h, key, t) ==
    IF HistoryExpired(h, key, t)
    THEN MapSet(h, key, [items |-> <<>>, resetAt |-> t + DayMs])
    ELSE h

\* (fault) a full list is left as it is: the new item is not stored
RememberKeepsOldest(items, c, keep) ==
    IF Len(items) >= keep THEN items ELSE <<c>> \o items

\* (fault) push in place of unshift: the cut drops the newest item
RememberPush(items, c, keep) == Slice(items \o <<c>>, keep)

\* state.items.unshift(c); state.items = state.items.slice(0, keepLast)
Remember(items, c, keep) == Slice(<<c>> \o items, keep)

\* (fault) the loop retries until a draw is accepted
MoreAttemptsUnbounded(i) == TRUE

\* i < 12
MoreAttempts(i) == i < Attempts

NoPick == [pc |-> "idle", caller |-> 0, args |-> <<None, None>>, key |-> None,
           at |-> 0, pre |-> {},
           recent |-> <<>>, bank |-> <<>>, keep |-> 0, i |-> 0, draws |-> 0,
           cand |-> NoItem, ret |-> NoItem]

\* pickNonRepeatingOpener(mode, ip, bk, keep) is entered: lines up to the loop
pickNonRepeatingOpener(mode, ip, bk, keep, caller) ==
    LET key == OpenerKey(ip, mode)
        fresh == ~Has(OPENER_HISTORY, key) \/ now > OPENER_HISTORY[key].resetAt
        before == IF fresh THEN <<>> ELSE served[<<ip, mode>>]
    IN  /\ op.pc = "idle"
        /\ picks' = picks + 1
        /\ OPENER_HISTORY' = HistoryInit(OPENER_HISTORY, key, now)
        /\ served' = [served EXCEPT ![<<ip, mode>>] = before]
        /\ op' = [pc |-> "loop", caller |-> caller, args |-> <<ip, mode>>,
                  key |-> key, at |-> now,
                  pre |-> Found(OPENER_HISTORY, key),
                  recent |-> Slice(before, keep),
                  bank |-> bk, keep |-> keep, i |-> 0, draws |-> 0,
                  cand |-> NoItem, ret |-> NoItem]

\* the accepted item is stored and returned: a direct call is over; in the
\* handler the prompt is built with the opener and the turn ends at
\* await getOpenAIClient(apiKey)
Accept(c) ==
    /\ OPENER_HISTORY' = MapSet(OPENER_HISTORY, op.key,
          [OPENER_HISTORY[op.key] EXCEPT !.items = Remember(@, c, op.keep)])
    /\ served' = [served EXCEPT ![op.args] = SubSeq(<<c>> \o @, 1, Min(op.keep, Len(@) + 1))]
    /\ IF op.caller = 0
       THEN /\ op' = [op EXCEPT !.pc = "done", !.draws = @ + 1, !.ret = c]
            /\ UNCHANGED <<req, running>>
       ELSE /\ op' = NoPick
            /\ req' = [req EXCEPT ![op.caller].pc = "awaitClient",
                                  ![op.caller].opener = c]
            /\ running' = 0

\* one turn of the loop: a draw, accepted when it is not in the recency list
PickDraw ==
    /\ op.pc = "loop"
    /\ MoreAttempts(op.i)
    /\ \E idx \in DrawIndices(op.bank) :
         LET candidate == BankAt(op.bank, idx)
         IN  IF ~Includes(OPENER_HISTORY[op.key].items, candidate)
             THEN Accept(candidate)
             ELSE /\ op' = [op EXCEPT !.i = @ + 1, !.draws = @ + 1,
                                      !.cand = IF MoreAttempts(op.i + 1)
                                               THEN NoItem ELSE candidate]
                  /\ UNCHANGED <<OPENER_HISTORY, served, req, running>>
    /\ UNCHANGED <<now, bank, keepLast, picks>>
    /\ UNCHANGED <<started, OpenAIClass, admitted>>
    /\ UNCHANGED limiterVars
    /\ UNCHANGED auxVars

\* (fault) no draw after the loop: the candidate of its last turn is accepted
PickFallbackLastCandidate ==
    /\ op.pc = "loop"
    /\ ~MoreAttempts(op.i)
    /\ OPENER_HISTORY' = MapSet(OPENER_HISTORY, op.key,
          [OPENER_HISTORY[op.key] EXCEPT !.items = Remember(@, op.cand, op.keep)])
    /\ served' = [served EXCEPT ![op.args] =
                     SubSeq(<<op.cand>> \o @, 1, Min(op.keep, Len(@) + 1))]
    /\ IF op.caller = 0
       THEN /\ op' = [op EXCEPT !.pc = "done", !.ret = op.cand]
            /\ UNCHANGED <<req, running>>
       ELSE /\ op' = NoPick
            /\ req' = [req EXCEPT ![op.caller].pc = "awaitClient",
                                  ![op.caller].opener = op.cand]
            /\ running' = 0
    /\ UNCHANGED <<now, bank, keepLast, picks>>
    /\ UNCHANGED <<started, OpenAIClass, admitted>>
    /\ UNCHANGED limiterVars
    /\ UNCHANGED auxVars

\* the loop is over: one more draw, accepted whatever it is
PickFallback ==
    /\ op.pc = "loop"
    /\ ~MoreAttempts(op.i)
    /\ \E idx \in DrawIndices(op.bank) :
         LET fallback == BankAt(op.bank, idx)
         IN  Accept(fallback)
    /\ UNCHANGED <<now, bank, keepLast, picks>>
    /\ UNCHANGED <<started, OpenAIClass, admitted>>
    /\ UNCHANGED limiterVars
    /\ UNCHANGED auxVars

\* the call is over: its frame is dropped
PickReturn ==
    /\ op.pc = "done"
    /\ op.caller = 0
    /\ op' = NoPick
    /\ UNCHANGED <<now, OPENER_HISTORY, bank, keepLast, served, picks>>
    /\ UNCHANGED limiterVars
    /\ UNCHANGED auxVars
    /\ UNCHANGED handlerVars

\* a direct call with the arguments of this run
PickCall ==
    /\ picks < MaxPicks
    /\ \E ip \in CallIps, mode \in CallModes :
         pickNonRepeatingOpener(mode, ip, bank, keepLast, 0)
    /\ UNCHANGED <<now, bank, keepLast>>
    /\ UNCHANGED limiterVars
    /\ UNCHANGED auxVars
    /\ UNCHANGED handlerVars

\* a direct call for any client and any day mode
PickCallAny ==
    /\ picks < MaxKeyCalls
    /\ \E ip \in OpenerIps, mode \in Modes :
         pickNonRepeatingOpener(mode, ip, bank, keepLast, 0)
    /\ UNCHANGED <<now, bank, keepLast>>
    /\ UNCHANGED limiterVars
    /\ UNCHANGED auxVars
    /\ UNCHANGED handlerVars

\* ----------------------------------------------------------------- handler

Slots == 1..MaxInFlight

\* req.method
Methods == {"OPTIONS", "GET", "POST"}

\* req.body: a string that is no JSON, or an object with this mode field
Bodies == {"not json", "morning", "midnight"}

\* clampMode(body.mode)
clampMode(x) ==
    IF x = "afternoon" THEN "afternoon"
    ELSE IF x = "evening" THEN "evening"
    ELSE "morning"

\* OPENER_BANK[mode].length
BankSize(mode) == IF mode = "evening" THEN 50 ELSE 5

\* [...OPENER_BANK[mode]]: the openers of a mode, numbered in bank order
OPENER_BANK(mode) == [i \in 1..BankSize(mode) |-> i]

\* an invocation: its position, its locals (ip, now and cur inside rateLimitOk,
\* rl, mode, the opener), the number of generation calls it made, its
\* response (status, meta), and the count that its rateLimitOk call left stored
NoRequest == [pc |-> "free", ip |-> None, at |-> 0, cur |-> {}, rl |-> {},
              mode |-> None, opener |-> NoItem, upstream |-> 0, status |-> 0,
              meta |-> {}, counted |-> 0]

\* return res.status(code): the response is sent, which ends the turn
Answer(q, code) == [q EXCEPT !.pc = "done", !.status = code]

Respond(r, code) == req' = [req EXCEPT ![r] = Answer(@, code)]

\* rateLimitOk returns rl: now and cur go out of scope
Returns(q, rl) == [q EXCEPT !.rl = {rl}, !.at = 0, !.cur = {}]

\* (fault) the quota is read again from the map when the response is built
MetaLive(q) == {[remaining |-> RateLimit - bucket[q.ip].count]}

\* meta: { ..., remaining: rl.remaining }
Meta(q) == {[remaining |-> rl.remaining] : rl \in q.rl}

\* the map rateLimitOk read its entry from: bucket.get(key) at the call
Snapshot(key, cur) == IF cur = {} THEN <<>> ELSE [k \in {key} |-> CHOOSE e \in cur : TRUE]

\* admitted, with one more request allowed at time t
Admit(a, t) ==
    IF t \in DOMAIN a THEN [a EXCEPT ![t] = @ + 1]
    ELSE [x \in DOMAIN a \cup {t} |-> IF x = t THEN 1 ELSE a[x]]

\* (fault) preemptive threads: an invocation runs whatever the others are doing
RunnablePreemptive(r) == TRUE

\* the invocation may execute: no other invocation is inside a synchronous turn
Runnable(r) == running \in {0, r}

\* (fault) the 429 return left out
DeniedIgnored(rl) == FALSE

\* if (!rl.ok)
Denied(rl) == ~rl.ok

\* the handler is invoked (the invocation is given the first free slot): CORS
\* headers, method and API key tests, the client key, and the head of
\* rateLimitOk (now and cur are read)
HStart(r) ==
    /\ req[r].pc = "free"
    /\ \A q \in 1..(r - 1) : req[q].pc # "free"
    /\ Runnable(r)
    /\ op.pc = "idle"
    /\ started < MaxRequests
    /\ started' = started + 1
    /\ \E method \in Methods, apiKey \in BOOLEAN, ip \in CallIps :
         IF method = "OPTIONS" THEN Respond(r, 200)
         ELSE IF method # "POST" THEN Respond(r, 405)
         ELSE IF ~apiKey THEN Respond(r, 500)
         ELSE req' = [req EXCEPT ![r].pc = "limit", ![r].ip = ip, ![r].at = now,
                                 ![r].cur = Found(bucket, ip)]
    /\ running' = r
    /\ UNCHANGED <<now, OpenAIClass, admitted>>
    /\ UNCHANGED limiterVars
    /\ UNCHANGED auxVars
    /\ UNCHANGED openerVars

\* (fault) the body is parsed and the parameters are clamped before
\* rateLimitOk is called: a body that is no JSON is answered 400 uncounted
HLimitParsesFirst(r) ==
    LET ip   == req[r].ip
        snap == Snapshot(ip, req[r].cur)
        rl   == RateLimitResult(snap, ip, req[r].at, RateLimit, WindowMs)
        Counted(q) == [q EXCEPT !.counted = bucket'[ip].count]
    IN  /\ req[r].pc = "limit"
        /\ Runnable(r)
        /\ \E body \in Bodies :
             IF body = "not json"
             THEN /\ req' = [req EXCEPT ![r] = Answer([@ EXCEPT !.at = 0, !.cur = {}], 400)]
                  /\ UNCHANGED <<bucket, admitted>>
                  /\ UNCHANGED openerVars
             ELSE /\ bucket' = MapSet(bucket, ip,
                                      RateLimitEntry(snap, ip, req[r].at, RateLimit, WindowMs))
                  /\ admitted' = IF rl.ok THEN [admitted EXCEPT ![ip] = Admit(@, req[r].at)]
                                 ELSE admitted
                  /\ IF Denied(rl)
                     THEN /\ req' = [req EXCEPT ![r] =
                                 Answer([Counted(Returns(@, rl)) EXCEPT !.mode = clampMode(body)], 429)]
                          /\ UNCHANGED openerVars
                     ELSE /\ op.pc = "idle"
                          /\ req' = [req EXCEPT ![r] =
                                 [Counted(Returns(@, rl)) EXCEPT !.pc = "pick",
                                                                !.mode = clampMode(body)]]
                          /\ pickNonRepeatingOpener(clampMode(body), ip,
                                                    OPENER_BANK(clampMode(body)), KeepLast, r)
                          /\ UNCHANGED <<bank, keepLast>>
        /\ UNCHANGED <<now, running, started, OpenAIClass>>
        /\ UNCHANGED <<limit, windowMs, calls, stale, last, fleet>>
        /\ UNCHANGED auxVars

\* rateLimitOk decides and stores; then the 429 answer, or the body is parsed
\* (400 when it is no JSON), the parameters are clamped and
\* pickNonRepeatingOpener is entered
HLimit(r) ==
    LET ip   == req[r].ip
        snap == Snapshot(ip, req[r].cur)
        rl   == RateLimitResult(snap, ip, req[r].at, RateLimit, WindowMs)
        Counted(q) == [q EXCEPT !.counted = bucket'[ip].count]
    IN  /\ req[r].pc = "limit"
        /\ Runnable(r)
        /\ bucket' = MapSet(bucket, ip, RateLimitEntry(snap, ip, req[r].at, RateLimit, WindowMs))
        /\ admitted' = IF rl.ok THEN [admitted EXCEPT ![ip] = Admit(@, req[r].at)]
                       ELSE admitted
        /\ \E body \in Bodies :
             IF Denied(rl)
             THEN /\ req' = [req EXCEPT ![r] = Answer(Counted(Returns(@, rl)), 429)]
                  /\ UNCHANGED openerVars
             ELSE IF body = "not json"
             THEN /\ req' = [req EXCEPT ![r] = Answer(Counted(Returns(@, rl)), 400)]
                  /\ UNCHANGED openerVars
             ELSE /\ op.pc = "idle"
                  /\ req' = [req EXCEPT ![r] =
                         [Counted(Returns(@, rl)) EXCEPT !.pc = "pick",
                                                        !.mode = clampMode(body)]]
                  /\ pickNonRepeatingOpener(clampMode(body), ip,
                                            OPENER_BANK(clampMode(body)), KeepLast, r)
                  /\ UNCHANGED <<bank, keepLast>>
        /\ UNCHANGED <<now, running, started, OpenAIClass>>
        /\ UNCHANGED <<limit, windowMs, calls, stale, last, fleet>>
        /\ UNCHANGED auxVars

\* getOpenAIClient settles: the import failed (caught: 502), or the client is
\* built and client.responses.create is called and awaited
HClient(r) ==
    /\ req[r].pc = "awaitClient"
    /\ Runnable(r)
    /\ op.pc = "idle"
    /\ \/ /\ ~OpenAIClass
          /\ Respond(r, 502)
          /\ running' = r
          /\ UNCHANGED OpenAIClass
       \/ /\ OpenAIClass' = TRUE
          /\ req' = [req EXCEPT ![r].pc = "awaitUpstream", ![r].upstream = @ + 1]
          /\ running' = 0
    /\ UNCHANGED <<now, started, admitted>>
    /\ UNCHANGED limiterVars
    /\ UNCHANGED auxVars
    /\ UNCHANGED openerVars

\* (fault) a request that ends in 502 gives its slot back
HUpstreamRefunds(r) ==
    /\ req[r].pc = "awaitUpstream"
    /\ Runnable(r)
    /\ op.pc = "idle"
    /\ \E outcome \in {"throws", "empty", "text"} :
         IF outcome = "text"
         THEN /\ req' = [req EXCEPT ![r] = Answer([@ EXCEPT !.meta = Meta(req[r])], 200)]
              /\ UNCHANGED bucket
         ELSE /\ Respond(r, 502)
              /\ bucket' = IF Has(bucket, req[r].ip)
                           THEN [bucket EXCEPT ![req[r].ip].count = @ - 1]
                           ELSE bucket
    /\ running' = r
    /\ UNCHANGED <<now, started, OpenAIClass, admitted>>
    /\ UNCHANGED <<limit, windowMs, calls, stale, last, fleet>>
    /\ UNCHANGED auxVars
    /\ UNCHANGED openerVars

\* the generation call settles: it threw or gave no text (502), or the text
\* is answered with 200 and meta.remaining = rl.remaining
HUpstream(r) ==
    /\ req[r].pc = "awaitUpstream"
    /\ Runnable(r)
    /\ op.pc = "idle"
    /\ \E outcome \in {"throws", "empty", "text"} :
         IF outcome = "text"
         THEN req' = [req EXCEPT ![r] = Answer([@ EXCEPT !.meta = Meta(req[r])], 200)]
         ELSE Respond(r, 502)
    /\ running' = r
    /\ UNCHANGED <<now, started, OpenAIClass, admitted>>
    /\ UNCHANGED limiterVars
    /\ UNCHANGED auxVars
    /\ UNCHANGED openerVars

\* the turn that answered ends: the invocation is over
HFinish(r) ==
    /\ req[r].pc = "done"
    /\ req' = [req EXCEPT ![r] = NoRequest]
    /\ running' = 0
    /\ UNCHANGED <<now, started, OpenAIClass, admitted>>
    /\ UNCHANGED limiterVars
    /\ UNCHANGED auxVars
    /\ UNCHANGED openerVars

\* ------------------------------------------------------------------ clock

\* no synchronous turn is executing (a turn reads the clock once, where it
\* starts its limiter or rotator call, and runs to its next await or return
\* without yielding: the clock is moved between turns)
Quiet == running = 0 /\ op.pc = "idle"

\* the clock moves on by a millisecond
Tick ==
    /\ Quiet
    /\ now % WindowMs < MaxNow
    /\ now' = now + 1
    /\ UNCHANGED limiterVars
    /\ UNCHANGED auxVars
    /\ UNCHANGED openerVars
    /\ UNCHANGED handlerVars

\* the clock moves on by the handler's rate-limit window
TickWindow ==
    /\ Quiet
    /\ now < MaxWindows * WindowMs
    /\ now' = now + WindowMs
    /\ UNCHANGED limiterVars
    /\ UNCHANGED auxVars
    /\ UNCHANGED openerVars
    /\ UNCHANGED handlerVars

\* the clock moves on by a day
TickDay ==
    /\ Quiet
    /\ now < MaxDays * DayMs
    /\ now' = now + DayMs
    /\ UNCHANGED limiterVars
    /\ UNCHANGED auxVars
    /\ UNCHANGED openerVars
    /\ UNCHANGED handlerVars

\* ------------------------------------------------------- process instances

\* the process instances (each has loaded the module, so each has a map bucket)
Instances == 1..MaxInstances

\* an instance that has just loaded the module: const bucket = new Map()
NoInstance == [bucket |-> <<>>, allowed |-> [k \in Keys |-> <<>>]]

\* (fault) one map shared by every instance
OwnBucketShared(f, i) == f[1].bucket

\* the module-level bucket of the instance that runs the call
OwnBucket(f, i) == f[i].bucket

\* a request of client key lands on instance i, which calls
\* rateLimitOk(key, limit, windowMs) on its own map
FleetCall(i) ==
    \E key \in CallIps :
        LET b == OwnBucket(fleet, i)
            r == RateLimitResult(b, key, now, limit, windowMs)
        IN  /\ calls[key] < MaxCalls
            /\ calls' = [calls EXCEPT ![key] = @ + 1]
            /\ fleet' = [fleet EXCEPT
                   ![i].bucket = MapSet(b, key, RateLimitEntry(b, key, now, limit, windowMs)),
                   ![i].allowed[key] = IF r.ok THEN Admit(@, now) ELSE @]
            /\ UNCHANGED <<now, bucket, limit, windowMs, stale, last>>
            /\ UNCHANGED auxVars
            /\ UNCHANGED openerVars
            /\ UNCHANGED handlerVars

\* ----------------------------------------------------------- pure functions

\* no function has been evaluated
NoEval == [fn |-> None, args |-> <<>>, out |-> <<>>, done |-> FALSE]

\* The characters a header value is made of: a blank, the list separator and
\* a character that is neither.
Chars == {" ", ",", "a"}

\* the strings of at most n characters
Strs(n) == UNION {[1..k -> Chars] : k \in 0..n}

\* req.headers[name] is undefined, a string, or an array of strings
Header(kind, str, list) == [kind |-> kind, str |-> str, list |-> list]

Headers ==
    {Header("undefined", <<>>, <<>>)}
        \cup {Header("string", v, <<>>) : v \in Strs(MaxHeaderLen)}
        \cup {Header("array", <<>>, l) :
                l \in UNION {[1..k -> Strs(MaxEntryLen)] : k \in 0..MaxList}}

\* Array.isArray(x) ? x[0] : x -- a string or undefined, as a set of at most
\* one string
FirstOf(x) ==
    CASE x.kind = "array" -> IF Len(x.list) > 0 THEN {x.list[1]} ELSE {}
      [] x.kind = "string" -> {x.str}
      [] OTHER -> {}

\* s.split(",")[0]: what precedes the first separator
SplitFirst(s) ==
    LET cut == {i \in 1..Len(s) : s[i] = ","}
    IN IF cut = {} THEN s
       ELSE SubSeq(s, 1, (CHOOSE i \in cut : \A j \in cut : i <= j) - 1)

TrimSkipped(s) == s

\* s.trim()
Trim(s) ==
    LET ink == {i \in 1..Len(s) : s[i] # " "}
    IN IF ink = {} THEN <<>>
       ELSE SubSeq(s, CHOOSE i \in ink : \A j \in ink : i <= j,
                      CHOOSE i \in ink : \A j \in ink : j <= i)

\* a || b || c of optional strings: the first that is a non-empty string
Truthy(o) == {v \in o : v # <<>>}

OrElse(o, p) == IF Truthy(o) # {} THEN o ELSE p

\* the sentinel "unknown"
Unknown == <<"u", "n", "k", "n", "o", "w", "n">>

\* const ip = (Array.isArray(xf) ? xf[0] : xf)?.split(",")[0]?.trim() ||
\*            (Array.isArray(xr) ? xr[0] : xr) || "unknown"
ClientIp(xf, xr) ==
    LET left == {Trim(SplitFirst(v)) : v \in FirstOf(xf)}
        pick == OrElse(left, OrElse(FirstOf(xr), {Unknown}))
    IN CHOOSE v \in pick : TRUE

\* The handler derives the key of the request from the two headers.
IpDerive ==
    /\ eval.fn = "ip" /\ ~eval.done
    /\ eval' = [eval EXCEPT !.out = ClientIp(eval.args[1], eval.args[2]),
                            !.done = TRUE]
    /\ UNCHANGED <<now, limiterVars, openerVars, handlerVars, gen>>

\* -------------------------------------------------------- filtering handler

\* no invocation of the filtering handler has reached its generation call
NoGen == [pc |-> "idle"]

\* clampLanguage(body.language)
Languages == {"en", "es"}

\* The characters of a generated text: a blank, a letter, and letters that
\* stand for a phrase of the English lists ("b", also in upper case) and for
\* a phrase of the Spanish lists ("t").
TextChars == {" ", "a", "b", "B", "t"}

\* r.output_text: undefined or a string
Outputs ==
    {Header("undefined", <<>>, <<>>)}
        \cup {Header("string", v, <<>>) :
                v \in UNION {[1..k -> TextChars] : k \in 0..MaxTextLen}}

\* String(r.output_text ?? "").trim()
TextOf(o) == Trim(IF o.kind = "string" THEN o.str ELSE <<>>)

\* text.toLowerCase()
toLowerCase(t) ==
    [i \in DOMAIN t |-> CASE t[i] = "B" -> "b" [] t[i] = "O" -> "o" [] OTHER -> t[i]]

\* t.includes(w)
IncludesPhrase(t, w) ==
    \E i \in 0..(Len(t) - Len(w)) : SubSeq(t, i + 1, i + Len(w)) = w

\* the phrase lists of the two filters
METAPHOR_EN == {<<"b">>}
TASKY_VERBS_ES == {<<"t">>}

\* isBadEnglishOutput(text)
isBadEnglishOutput(text) ==
    \E w \in METAPHOR_EN : IncludesPhrase(toLowerCase(text), w)

\* isTaskySpanishOutput(text)
isTaskySpanishOutput(text) ==
    \E w \in TASKY_VERBS_ES : IncludesPhrase(toLowerCase(text), w)

\* the condition of the Spanish block
WantsRegenEs(g) == g.language = "es" /\ isTaskySpanishOutput(g.text)

\* (fault) the English block runs for either language
WantsRegenEnAnyLanguage(g) == isBadEnglishOutput(g.text)

\* the condition of the English block
WantsRegenEn(g) == g.language = "en" /\ isBadEnglishOutput(g.text)

\* res.status(code).json(...): the invocation is over
Reply(g, code, error) == [g EXCEPT !.pc = "done", !.status = code, !.error = error]

\* the end of the try block: the second emptiness check and the answer
Finish(g) ==
    IF g.text = <<>>
    THEN Reply(g, 502, "Empty response after filtering")
    ELSE Reply(g, 200, None)

\* the English block and what follows it
AfterEs(g) == IF WantsRegenEn(g) THEN [g EXCEPT !.pc = "regenEn"] ELSE Finish(g)

\* the Spanish block and what follows it
AfterFirst(g) == IF WantsRegenEs(g) THEN [g EXCEPT !.pc = "regenEs"] ELSE AfterEs(g)

\* (fault) an alternative that passes the filter is taken, empty or not
ReplacementUnguarded(text, alt, flagged) == IF ~flagged THEN alt ELSE text

\* if (alt && !filter(alt)) text = alt
Replacement(text, alt, flagged) ==
    IF alt # <<>> /\ ~flagged THEN alt ELSE text

\* (fault) no inner try: the failure reaches the outer catch
RegenFailedUpstream(g, after) == Reply(g, 502, "Upstream AI error")

\* the inner catch of a block: a warning is logged, text stays and the
\* handler goes on after the block
RegenFailed(g, after) == after

\* await getOpenAIClient(apiKey) settles
FClient ==
    /\ gen.pc = "client"
    /\ \/ gen' = [gen EXCEPT !.pc = "create"]
       \/ gen' = Reply(gen, 502, "Upstream AI error")
    /\ UNCHANGED <<now, limiterVars, openerVars, handlerVars, eval>>

\* await client.responses.create(...) settles: the first text, its emptiness
\* check and the conditions of the two blocks up to the next await
FCreate ==
    /\ gen.pc = "create"
    /\ \/ gen' = Reply([gen EXCEPT !.calls = @ + 1], 502, "Upstream AI error")
       \/ \E r \in Outputs :
            LET text == TextOf(r)
                g == [gen EXCEPT !.calls = @ + 1, !.text = text, !.first = {text}]
            IN  gen' = IF text = <<>>
                       THEN Reply(g, 502, "Empty response from model")
                       ELSE AfterFirst(g)
    /\ UNCHANGED <<now, limiterVars, openerVars, handlerVars, eval>>

\* the regeneration of the Spanish block settles
FRegenEs ==
    /\ gen.pc = "regenEs"
    /\ \/ LET g == [gen EXCEPT !.calls = @ + 1, !.threw = TRUE]
          IN  gen' = RegenFailed(g, AfterEs(g))
       \/ \E r2 \in Outputs :
            LET alt == TextOf(r2)
                g == [gen EXCEPT !.calls = @ + 1, !.alt = {alt},
                         !.text = Replacement(@, alt, isTaskySpanishOutput(alt))]
            IN  gen' = AfterEs(g)
    /\ UNCHANGED <<now, limiterVars, openerVars, handlerVars, eval>>

\* the regeneration of the English block settles
FRegenEn ==
    /\ gen.pc = "regenEn"
    /\ \/ LET g == [gen EXCEPT !.calls = @ + 1, !.threw = TRUE]
          IN  gen' = RegenFailed(g, Finish(g))
       \/ \E r2 \in Outputs :
            LET alt == TextOf(r2)
                g == [gen EXCEPT !.calls = @ + 1, !.alt = {alt},
                         !.text = Replacement(@, alt, isBadEnglishOutput(alt))]
            IN  gen' = Finish(g)
    /\ UNCHANGED <<now, limiterVars, openerVars, handlerVars, eval>>

\* ---------------------------------------------------- fixed-opener handler

\* body.name: no string, a short string of blanks and letters, or a string
\* about as long as the cut of safeName with a blank near the cut
NameBodies ==
    {Header("undefined", <<>>, <<>>)}
        \cup {Header("string", v, <<>>) :
                v \in UNION {[1..k -> {" ", "a"}] : k \in 0..MaxNameLen}}
        \cup {Header("string", [i \in 1..k |-> "a"] \o <<" ", "a">>, <<>>) :
                k \in (NameCut - 2)..NameCut}

\* (fault) the name is not trimmed
safeNameUntrimmed(x) ==
    LET n == IF x.kind = "string" THEN x.str ELSE <<>>
    IN  Slice(IF n # <<>> THEN n ELSE <<"F", "r", "i", "e", "n", "d">>, NameCut)

\* safeName(body.name)
safeName(x) ==
    LET n == IF x.kind = "string" THEN Trim(x.str) ELSE <<>>
    IN  Slice(IF n # <<>> THEN n ELSE <<"F", "r", "i", "e", "n", "d">>, NameCut)

\* the openers of the bank of the mode, as texts
OpenerTexts == {<<"O", "a">>, <<"B", "a">>}

\* includeName ? `${name}, ${openerRaw.charAt(0).toLowerCase()}${openerRaw.slice(1)}`
\*             : openerRaw
firstSentence(includeName, name, openerRaw) ==
    IF includeName
    THEN name \o <<",", " ">> \o toLowerCase(SubSeq(openerRaw, 1, 1))
              \o SubSeq(openerRaw, 2, Len(openerRaw))
    ELSE openerRaw

\* text.startsWith(p)
startsWith(text, p) == Len(p) <= Len(text) /\ SubSeq(text, 1, Len(p)) = p

\* r.output_text of the fixed-opener handler: undefined, a short text, or
\* the first sentence of the prompt followed by a short text
OpenerOutputs(fs) ==
    LET short == UNION {[1..k -> {" ", "a", "O"}] : k \in 0..MaxTextLen}
    IN  {Header("undefined", <<>>, <<>>)}
            \cup {Header("string", v, <<>>) : v \in short}
            \cup {Header("string", fs \o v, <<>>) : v \in short}

\* if (!text.startsWith(firstSentence)) text = `${firstSentence} ${text}`.trim()
EnsureOpener(text, fs) ==
    IF ~startsWith(text, fs) THEN Trim(fs \o <<" ">> \o text) ELSE text

\* The fixed-opener handler from the name of the request to its answer: the
\* first sentence is fixed, the service answers, the text is completed.
OpenerRespond ==
    /\ eval.fn = "opener" /\ ~eval.done
    /\ LET name == safeName(eval.args[1])
           fs == firstSentence(eval.args[2], name, eval.args[3])
       IN  \E r \in OpenerOutputs(fs) :
             LET text == TextOf(r)
             IN  eval' = [eval EXCEPT
                    !.done = TRUE,
                    !.args = Append(@, text),
                    !.out = IF text = <<>>
                            THEN [status |-> 502, text |-> <<>>, fs |-> fs]
                            ELSE [status |-> 200, text |-> EnsureOpener(text, fs),
                                  fs |-> fs]]
    /\ UNCHANGED <<now, limiterVars, openerVars, handlerVars, gen>>

\* ------------------------------------------------------- category to intent

\* body.mode: a label of the closed set, another string, or no string
ModeBodies == Modes \cup {"midnight", None}

\* the handlers with four day modes and the handlers with three
Versions == {"four", "three"}

\* clampMode of the handlers with four day modes
clampModeFour(x) == IF x \in Modes THEN x ELSE "morning"

\* modeToIntent of the handlers with four day modes
modeToIntent(mode) ==
    CASE mode = "morning" -> "orient"
      [] mode = "afternoon" -> "act"
      [] mode = "evening" -> "close"
      [] mode = "bedtime" -> "rest"
      [] OTHER -> "orient"

\* modeToIntent of the handler with three day modes
modeToIntentThree(mode) ==
    IF mode = "afternoon" THEN "orient"
    ELSE IF mode = "evening" THEN "close"
    ELSE "act"

\* const mode = clampMode(body.mode); const intent = modeToIntent(mode):
\* one more request of a run of the handler
IntentDerive ==
    /\ eval.fn = "intent"
    /\ Len(eval.out) < MaxEvals
    /\ \E x \in ModeBodies :
         LET mode == IF eval.args = "four" THEN clampModeFour(x) ELSE clampMode(x)
             intent == IF eval.args = "four" THEN modeToIntent(mode)
                       ELSE modeToIntentThree(mode)
         IN  eval' = [eval EXCEPT !.out = Append(@, [x |-> x, mode |-> mode,
                                                     intent |-> intent])]
    /\ UNCHANGED <<now, limiterVars, openerVars, handlerVars, gen>>

\* ---------------------------------------------------------- specifications

\* no rateLimitOk call made yet
NoCall == [key |-> None, at |-> 0, pre |-> {}, ok |-> FALSE, remaining |-> 0]

\* banks up to a renaming of their items: the first item is 1, and each
\* later item is an earlier one or the next new number
Canonical(bk) ==
    \A i \in DOMAIN bk :
        /\ bk[i] >= 1
        /\ \A j \in 2..bk[i] : \E h \in 1..(i - 1) : bk[h] = j - 1

Banks == UNION {{bk \in [1..n -> 1..n] : Canonical(bk)} : n \in 1..MaxBank}

InitServer ==
    /\ now = 0
    /\ calls = [k \in Keys |-> 0]
    /\ stale = [k \in Keys |-> FALSE]
    /\ last = NoCall
    /\ OPENER_HISTORY = <<>>
    /\ op = NoPick
    /\ served = [p \in Pairs |-> <<>>]
    /\ picks = 0
    /\ req = [r \in Slots |-> NoRequest]
    /\ running = 0
    /\ started = 0
    /\ OpenAIClass = FALSE
    /\ fleet = [i \in Instances |-> NoInstance]

InitState ==
    /\ InitServer
    /\ eval = NoEval
    /\ gen = NoGen

\* both maps are empty when the module is loaded
InitMaps ==
    /\ bucket = <<>>
    /\ admitted = [k \in Keys |-> <<>>]

InitLimiter ==
    /\ InitState
    /\ InitMaps
    /\ limit \in 1..MaxLimit
    /\ windowMs \in 1..MaxWindow
    /\ bank = <<1>>
    /\ keepLast = 0

NextLimiter == RateLimitCall \/ Tick

SpecLimiter == InitLimiter /\ [][NextLimiter]_vars

NextFleet == (\E i \in Instances : FleetCall(i)) \/ Tick

SpecFleet == InitLimiter /\ [][NextFleet]_vars

InitOpener ==
    /\ InitState
    /\ InitMaps
    /\ limit = 1
    /\ windowMs = 1
    /\ bank \in Banks
    /\ keepLast \in 0..MaxKeep

NextOpener == PickCall \/ PickDraw \/ PickFallback \/ PickReturn \/ Tick \/ TickDay

SpecOpener == InitOpener /\ [][NextOpener]_vars

\* a bank of as many distinct items as the loop has turns
FullBank == [i \in 1..Attempts |-> i]

\* direct calls with that bank inside one history window, and keepLast small
\* or the handler's 20
InitBank ==
    /\ InitState
    /\ InitMaps
    /\ limit = 1
    /\ windowMs = 1
    /\ bank = FullBank
    /\ keepLast \in (0..MaxKeep) \cup {KeepLast}

NextBank == PickCall \/ PickDraw \/ PickFallback \/ PickReturn

SpecBank == InitBank /\ [][NextBank]_vars

\* the handler starts with a key that earlier requests at time 0 have used
\* up to any count (requests answered 400 leave the opener history empty)
InitHandler ==
    /\ InitState
    /\ limit = RateLimit
    /\ windowMs = WindowMs
    /\ bank = <<1>>
    /\ keepLast = KeepLast
    /\ \E k \in CallIps : \E c \in {0, RateLimit - 1, RateLimit} :
         /\ bucket = IF c = 0 THEN <<>> ELSE [x \in {k} |-> [count |-> c, resetAt |-> WindowMs]]
         /\ admitted = [x \in Keys |-> IF x = k /\ c > 0 THEN [t \in {0} |-> c] ELSE <<>>]

NextHandler ==
    \/ \E r \in Slots : HStart(r)
    \/ \E r \in Slots : HLimit(r)
    \/ PickDraw
    \/ PickFallback
    \/ \E r \in Slots : HClient(r)
    \/ \E r \in Slots : HUpstream(r)
    \/ \E r \in Slots : HFinish(r)
    \/ TickWindow

SpecHandler == InitHandler /\ [][NextHandler]_vars

\* the handler from a cold start: the map is empty
InitCold ==
    /\ InitState
    /\ InitMaps
    /\ limit = RateLimit
    /\ windowMs = WindowMs
    /\ bank = <<1>>
    /\ keepLast = KeepLast

SpecCold == InitCold /\ [][NextHandler]_vars

\* direct calls for several (client, category) pairs at one instant, the
\* rate-limit map empty or holding the entry of a client
InitKeys ==
    /\ InitState
    /\ limit = RateLimit
    /\ windowMs = WindowMs
    /\ bank \in {<<1>>, <<1, 2>>}
    /\ keepLast = 1
    /\ \E k \in CallIps : \E c \in {0, 1} :
         /\ bucket = IF c = 0 THEN <<>> ELSE [x \in {k} |-> [count |-> c, resetAt |-> WindowMs]]
         /\ admitted = [x \in Keys |-> IF x = k /\ c > 0 THEN [t \in {0} |-> c] ELSE <<>>]

NextKeys == PickCallAny \/ PickDraw \/ PickFallback \/ PickReturn

SpecKeys == InitKeys /\ [][NextKeys]_vars

\* The filtering handler from its try block on: an allowed request of either
\* language is about to get its client.
InitFilter ==
    /\ InitMaps
    /\ InitServer
    /\ limit = RateLimit /\ windowMs = WindowMs /\ bank = <<>> /\ keepLast = 0
    /\ eval = NoEval
    /\ \E language \in Languages :
         gen = [pc |-> "client", language |-> language, text |-> <<>>,
                calls |-> 0, first |-> {}, alt |-> {}, threw |-> FALSE,
                status |-> 0, error |-> None]

NextFilter == FClient \/ FCreate \/ FRegenEs \/ FRegenEn

SpecFilter == InitFilter /\ [][NextFilter]_vars

\* The fixed-opener handler for any name, either outcome of the name policy
\* and any opener of the bank.
InitOpenerText ==
    /\ InitMaps
    /\ InitServer
    /\ limit = RateLimit /\ windowMs = WindowMs /\ bank = <<>> /\ keepLast = 0
    /\ gen = NoGen
    /\ \E x \in NameBodies, includeName \in BOOLEAN, openerRaw \in OpenerTexts :
         eval = [fn |-> "opener", args |-> <<x, includeName, openerRaw>>,
                 out |-> <<>>, done |-> FALSE]

NextOpenerText == OpenerRespond

SpecOpenerText == InitOpenerText /\ [][NextOpenerText]_vars

\* Requests of any mode, one after another, to a handler of either version.
InitIntent ==
    /\ InitMaps
    /\ InitServer
    /\ limit = RateLimit /\ windowMs = WindowMs /\ bank = <<>> /\ keepLast = 0
    /\ gen = NoGen
    /\ \E v \in Versions :
         eval = [fn |-> "intent", args |-> v, out |-> <<>>, done |-> FALSE]

NextIntent == IntentDerive

SpecIntent == InitIntent /\ [][NextIntent]_vars

\* The derivation of the client key alone: a request arrives with any pair of
\* header values.
InitIp ==
    /\ InitMaps
    /\ InitServer
    /\ limit = 1 /\ windowMs = 1 /\ bank = <<>> /\ keepLast = 0
    /\ gen = NoGen
    /\ \E xf \in Headers, xr \in Headers :
            eval = [fn |-> "ip", args |-> <<xf, xr>>, out |-> <<>>, done |-> FALSE]

NextIp == IpDerive

SpecIp == InitIp /\ [][NextIp]_vars

\* ---------------------------------------------------- rate limiter: claims

\* the latest call was made for key k
LastFor(k) == last.key = k

\* C1: with one key, a fixed limit L and no call made after the entry's
\* resetAt, the i-th call (i <= L) returns ok with remaining = L - i and
\* every later call returns ok = false with remaining = 0.
RateLimitSequence ==
    \A k \in Keys :
        (LastFor(k) /\ ~stale[k]) =>
            IF calls[k] <= limit
            THEN last.ok /\ last.remaining = limit - calls[k]
            ELSE ~last.ok /\ last.remaining = 0

\* limit 3, four calls for one key at one instant: the fourth is denied
RateLimitSequenceWitness ==
    \E k \in Keys :
        /\ LastFor(k) /\ limit = 3 /\ calls[k] = 4 /\ now = 0
        /\ ~last.ok /\ last.remaining = 0
        /\ bucket[k].count = 3

\* C2: a call made strictly after the stored resetAt, whatever the stored
\* count, returns ok with remaining = L - 1 and leaves the entry
\* {count: 1, resetAt: now + windowMs}, as a call for an absent key does.
RateLimitWindowReset ==
    \A k \in Keys :
        (LastFor(k) /\ \A e \in last.pre : last.at > e.resetAt) =>
            /\ last.ok
            /\ last.remaining = limit - 1
            /\ Has(bucket, k)
            /\ bucket[k] = [count |-> 1, resetAt |-> last.at + windowMs]

\* a key with an exhausted quota is called again after its resetAt
RateLimitWindowResetWitness ==
    \E k \in Keys : \E e \in last.pre :
        /\ LastFor(k) /\ limit >= 2
        /\ e.count = limit /\ last.at > e.resetAt
        /\ last.ok

\* C3: a call for one key leaves the entry of every other key unchanged,
\* and a key is denied only after more than L calls of its own.
RateLimitKeysIndependent ==
    [][ /\ \A k \in Keys :
              calls'[k] = calls[k] => Found(bucket', k) = Found(bucket, k)
        /\ \A k \in Keys :
              (last'.key = k /\ ~last'.ok) => calls'[k] > limit
      ]_vars

\* one key is exhausted and denied, the other key is still allowed
RateLimitKeysIndependentWitness ==
    \E k1, k2 \in Keys :
        /\ k1 # k2 /\ limit >= 2
        /\ Has(bucket, k1) /\ bucket[k1].count = limit /\ calls[k1] > limit
        /\ LastFor(k2) /\ last.ok /\ last.pre # {}
        /\ last.at >= bucket[k1].resetAt - windowMs

\* C4: a denied call leaves the whole map as it was.
RateLimitDeniedNoChange ==
    [][ (calls' # calls /\ ~last'.ok) => bucket' = bucket ]_vars

\* a call has been denied and the entry it found is still the stored one
RateLimitDeniedNoChangeWitness ==
    \E k \in Keys :
        /\ LastFor(k) /\ ~last.ok
        /\ last.pre = {bucket[k]}
        /\ bucket[k].count = limit

\* --------------------------------------------------- opener rotator: claims

\* the call in progress has returned
Returned == op.pc = "done"

\* the bank of the call holds at least keepLast + 1 distinct items
BankLargerThanCap == Cardinality(Range(op.bank)) >= op.keep + 1

\* the call was made strictly after the stored resetAt of its key
CalledAfterExpiry == \E e \in op.pre : op.at > e.resetAt

\* C5 as stated: with a bank of at least keepLast + 1 distinct items, no
\* returned item equals one of the keepLast items returned last for the key
\* in the same history window, whatever the draws.
PickNeverRepeats ==
    (Returned /\ BankLargerThanCap) => ~Includes(op.recent, op.ret)

\* C5 amended: with such a bank, an item returned by one of the 12 turns of
\* the loop equals none of the keepLast items returned last; a repeat is
\* returned only by the fallback draw, made after 12 rejected draws.
PickRepeatsOnlyByFallback ==
    (Returned /\ BankLargerThanCap /\ Includes(op.recent, op.ret)) =>
        op.draws = Attempts + 1

\* bank [1,2,3], keepLast 2, two items served: the third pick rejects a
\* draw and returns the one item that was not served
PickRepeatsOnlyByFallbackWitness ==
    /\ Returned /\ op.bank = <<1, 2, 3>> /\ op.keep = 2
    /\ Len(op.recent) = 2
    /\ op.draws > 1 /\ op.draws <= Attempts
    /\ ~Includes(op.recent, op.ret)

\* C6: for every non-empty bank, every keepLast >= 0 and every outcome of
\* the draws, a call makes at most 12 + 1 draws, each turn of the loop either
\* returns or moves the counter on, the call can always take its next step,
\* and the item it returns is an element of the bank.
PickTerminates ==
    /\ op.draws <= Attempts + 1
    /\ op.pc = "loop" =>
          /\ op.i = op.draws
          /\ op.i <= Attempts
          /\ ENABLED (PickDraw \/ PickFallback)
    /\ Returned => Includes(op.bank, op.ret)

\* every item of the bank is in the recency list, 12 draws are rejected and
\* the 13th is returned
PickTerminatesWitness ==
    /\ Returned /\ op.draws = Attempts + 1
    /\ Range(op.bank) \subseteq Range(op.recent)
    /\ Includes(op.bank, op.ret)

\* C7: a call made strictly after the stored resetAt of its key empties the
\* recency list and sets resetAt = now + 24h before it draws, so its first
\* draw is returned whatever it is, an item of the old list included.
PickAfterExpiry ==
    (op.pc # "idle" /\ CalledAfterExpiry) =>
        /\ Has(OPENER_HISTORY, op.key)
        /\ OPENER_HISTORY[op.key].resetAt = op.at + DayMs
        /\ op.pc = "loop" => (op.draws = 0 /\ OPENER_HISTORY[op.key].items = <<>>)
        /\ Returned => /\ op.draws = 1
                       /\ OPENER_HISTORY[op.key].items = Slice(<<op.ret>>, op.keep)

\* an item of the expired list is returned on the first draw
PickAfterExpiryWitness ==
    /\ Returned /\ CalledAfterExpiry
    /\ op.draws = 1
    /\ \E e \in op.pre : Includes(e.items, op.ret)

\* C8: the recency list of every key is never longer than keepLast.
HistoryBounded ==
    \A key \in DOMAIN OPENER_HISTORY :
        Len(OPENER_HISTORY[key].items) <= keepLast

\* a pick made with a full list: the oldest item is dropped
HistoryBoundedWitness ==
    /\ Returned /\ keepLast >= 1
    /\ \E e \in op.pre : Len(e.items) = keepLast /\ op.at <= e.resetAt
    /\ Len(OPENER_HISTORY[op.key].items) = keepLast
    /\ OPENER_HISTORY[op.key].items[1] = op.ret

\* ----------------------------------------------------------- handler: claims

\* the invocation waits at one of its awaits
Awaiting(r) == req[r].pc \in {"awaitClient", "awaitUpstream"}

\* rateLimitOk has refused the invocation
Refused(q) == \E rl \in q.rl : ~rl.ok

\* C9: when rateLimitOk denies a request, the handler answers 429 in the
\* same turn and does nothing else: the opener history and the rotator are
\* untouched, no opener is picked and the generation service is not called.
DeniedShortCircuits ==
    [][ \A r \in Slots :
          /\ (req[r].pc = "limit" /\ Refused(req'[r])) =>
                /\ req'[r].pc = "done" /\ req'[r].status = 429
                /\ OPENER_HISTORY' = OPENER_HISTORY
                /\ op' = op /\ picks' = picks
          /\ Refused(req'[r]) =>
                /\ req'[r].pc = "done" /\ req'[r].status = 429
                /\ req'[r].opener = NoItem /\ req'[r].upstream = 0
      ]_vars

\* a request is answered 429 while the key's window is full
DeniedShortCircuitsWitness ==
    \E r \in Slots :
        /\ req[r].pc = "done" /\ req[r].status = 429
        /\ Refused(req[r])
        /\ bucket[req[r].ip].count = RateLimit

RECURSIVE SumOver(_, _)
SumOver(a, S) ==
    IF S = {} THEN 0
    ELSE LET t == CHOOSE x \in S : TRUE IN a[t] + SumOver(a, S \ {t})

\* the number of requests of the key allowed at times lo..hi
AdmittedIn(k, lo, hi) ==
    SumOver(admitted[k], {t \in DOMAIN admitted[k] : lo <= t /\ t <= hi})

\* C10: with invocations interleaved at their awaits, no update is lost: the
\* stored count of every key is the number of requests allowed in the key's
\* current window and is at most the limit, and the recency list of every
\* opener key holds every opener picked in its window.
NoLostUpdate ==
    /\ \A k \in DOMAIN bucket :
          /\ bucket[k].count =
                AdmittedIn(k, bucket[k].resetAt - WindowMs, bucket[k].resetAt)
          /\ bucket[k].count <= RateLimit
    /\ \A p \in Pairs :
          Has(OPENER_HISTORY, OpenerKey(p[1], p[2]))
              => OPENER_HISTORY[OpenerKey(p[1], p[2])].items = served[p]

\* two invocations of one client wait at their awaits, both allowed in the
\* same window and both with their opener in the recency list
NoLostUpdateWitness ==
    \E r1, r2 \in Slots :
        /\ r1 # r2 /\ Awaiting(r1) /\ Awaiting(r2)
        /\ \E a \in req[r1].rl, b \in req[r2].rl : a.remaining = b.remaining + 1
        /\ \E k \in Keys :
              /\ DOMAIN bucket = {k} /\ bucket[k].count >= 2
              /\ DOMAIN OPENER_HISTORY = {OpenerKey(k, "morning")}
              /\ OPENER_HISTORY[OpenerKey(k, "morning")].items =
                    <<req[r2].opener, req[r1].opener>>

\* ------------------------------------------------- process instances: claims

\* the number of requests of the key that instance i allowed at times lo..hi
AllowedBy(i, k, lo, hi) ==
    SumOver(fleet[i].allowed[k], {t \in DOMAIN fleet[i].allowed[k] : lo <= t /\ t <= hi})

RECURSIVE AllowedByAll(_, _, _, _)
AllowedByAll(I, k, lo, hi) ==
    IF I = {} THEN 0
    ELSE LET i == CHOOSE x \in I : TRUE
         IN  AllowedBy(i, k, lo, hi) + AllowedByAll(I \ {i}, k, lo, hi)

\* C11: with several process instances, each with its own map, every
\* instance alone allows at most limit requests of a key in one of its
\* windows (its stored count is the number it allowed in the window), so the
\* instances together allow at most MaxInstances * limit; the state in which
\* one key was allowed more than limit requests in one window is reachable.
FleetEachWithinLimit ==
    \A i \in Instances : \A k \in DOMAIN fleet[i].bucket :
        LET e == fleet[i].bucket[k]
        IN  /\ e.count <= limit
            /\ e.count = AllowedBy(i, k, e.resetAt - windowMs, e.resetAt)
            /\ AllowedByAll(Instances, k, e.resetAt - windowMs, e.resetAt)
                  <= MaxInstances * limit

\* one client, limit 3: four requests spread over two instances are all
\* allowed at one instant
FleetEachWithinLimitWitness ==
    \E k \in Keys :
        /\ limit = 3 /\ now = 0
        /\ AllowedByAll(Instances, k, 0, 0) > limit
        /\ \A i \in Instances : AllowedBy(i, k, 0, 0) <= limit

\* ------------------------------------------------- handler: response claims

\* the invocation has answered 200 with a generated text
AnsweredText(q) == q.pc = "done" /\ q.status = 200 /\ q.upstream > 0

\* C12: every 200 response with a text carries meta.remaining = the value
\* rateLimitOk returned for that request, which is the limit minus the count
\* stored right after the request was counted, whatever was admitted since.
MetaRemainingIsOwn ==
    \A r \in Slots :
        AnsweredText(req[r]) =>
            /\ req[r].meta = {[remaining |-> RateLimit - req[r].counted]}
            /\ \A rl \in req[r].rl : rl.ok /\ rl.remaining = RateLimit - req[r].counted

\* a 200 response whose meta.remaining is one more than the quota left now:
\* a later request of the client was admitted while the generation call
\* of this one was pending
MetaRemainingIsOwnWitness ==
    \E r \in Slots :
        /\ AnsweredText(req[r])
        /\ req[r].meta = {[remaining |-> RateLimit - bucket[req[r].ip].count + 1]}
        /\ \E q \in Slots \ {r} : req[q].counted = req[r].counted + 1

\* ------------------------------------------------ opener rotator: more claims

\* no item occurs twice in the list
Distinct(items) == Cardinality(Range(items)) = Len(items)

\* the items stored for the key, none when the key is absent
ItemsOf(h, key) == IF Has(h, key) THEN h[key].items ELSE <<>>

\* C13 as stated: with a bank of at least 12 distinct items the recency list
\* of a key never holds an item twice, whatever keepLast and the draws.
NoDuplicateWithFullBank ==
    Cardinality(Range(bank)) >= Attempts =>
        \A key \in DOMAIN OPENER_HISTORY : Distinct(OPENER_HISTORY[key].items)

\* C13 amended: whatever the bank, a step puts a duplicate into a recency
\* list only when it is the fallback draw, made after 12 rejected draws; a
\* draw accepted by the loop never does.
DuplicateOnlyByFallback ==
    [][ \A key \in DOMAIN OPENER_HISTORY' :
          (Distinct(ItemsOf(OPENER_HISTORY, key)) /\ ~Distinct(OPENER_HISTORY'[key].items))
              => (op.pc = "loop" /\ op.i = Attempts /\ op.key = key)
      ]_vars

\* bank of 12 distinct items, one item in the list: 12 draws hit it, the
\* fallback draw hits it again and the list holds it twice
DuplicateOnlyByFallbackWitness ==
    /\ Returned /\ op.bank = FullBank /\ op.draws = Attempts + 1
    /\ Len(op.recent) = 1
    /\ OPENER_HISTORY[op.key].items = <<op.ret, op.ret>>

\* the calls of the rotator that have returned
PicksDone == picks - (IF op.pc = "loop" THEN 1 ELSE 0)

\* the entry of the key is the one its first call created
FirstWindow(key) == OPENER_HISTORY[key].resetAt < 2 * DayMs

\* C14: after n calls for one key inside one history window with a fixed
\* keepLast, the list holds exactly the min(n, keepLast) items returned
\* last, latest first: the item just returned is at the head, the items
\* before it follow in their order and the oldest is the one dropped.
RecencyOrder ==
    \A p \in Pairs : Has(OPENER_HISTORY, OpenerKey(p[1], p[2])) =>
        LET key == OpenerKey(p[1], p[2])
            items == OPENER_HISTORY[key].items
        IN  /\ items = served[p]
            /\ FirstWindow(key) => Len(items) = Min(PicksDone, keepLast)
            /\ (Returned /\ op.key = key) =>
                  /\ Len(items) = Min(Len(op.recent) + 1, keepLast)
                  /\ \A j \in 1..Len(items) :
                        items[j] = IF j = 1 THEN op.ret ELSE op.recent[j - 1]

\* bank [1,2,3], keepLast 2: the third call returns the item that is not in
\* the list, which then holds it and the item returned before it; the item
\* of the first call is dropped
RecencyOrderWitness ==
    /\ Returned /\ op.bank = <<1, 2, 3>> /\ keepLast = 2 /\ PicksDone = 3
    /\ FirstWindow(op.key)
    /\ Len(op.recent) = 2
    /\ OPENER_HISTORY[op.key].items = <<op.ret, op.recent[1]>>
    /\ ~Includes(OPENER_HISTORY[op.key].items, op.recent[2])

\* the 12 turns of the loop of the call have all rejected their draw
LoopExhausted == op.i = Attempts

\* C15 as stated: when all 12 attempts drew an item of the recency list, the
\* item returned is the candidate of the 12th attempt and no further draw
\* is made.
FallbackIsLastCandidate ==
    (Returned /\ LoopExhausted) =>
        /\ op.ret = op.cand
        /\ op.draws = Attempts

\* C15 amended: when all 12 attempts drew an item of the recency list, a
\* 13th draw is made and returned unchecked: it is an item of the bank, in
\* the list or not, and need not be the 12th candidate (which is in the list).
FallbackIsFreshDraw ==
    (Returned /\ LoopExhausted) =>
        /\ op.draws = Attempts + 1
        /\ Includes(op.bank, op.ret)
        /\ Includes(op.recent, op.cand)
        /\ OPENER_HISTORY[op.key].items = Remember(op.recent, op.ret, op.keep)

\* bank [1,2], one item in the list: 12 draws hit it, the 13th returns the
\* other item, which is not the 12th candidate and is no repeat
FallbackIsFreshDrawWitness ==
    /\ Returned /\ LoopExhausted
    /\ op.bank = <<1, 2>>
    /\ op.ret # op.cand
    /\ ~Includes(op.recent, op.ret)

\* ----------------------------------------------- rate limiter: more claims

\* C16: the expiry test is strict. A call made at now <= resetAt, now =
\* resetAt included, keeps the entry: it is incremented, or the call is denied
\* and the entry is left as it is. Only a call made at now > resetAt replaces
\* the entry, and it never increments it.
ExpiryIsStrict ==
    \A k \in Keys : \A e \in last.pre :
        LastFor(k) =>
            IF last.at <= e.resetAt
            THEN /\ bucket[k].resetAt = e.resetAt
                 /\ IF last.ok THEN bucket[k].count = e.count + 1
                               ELSE bucket[k] = e /\ e.count >= limit
            ELSE /\ bucket[k] = [count |-> 1, resetAt |-> last.at + windowMs]
                 /\ last.ok

\* a call made at exactly the stored resetAt is counted in the old window
ExpiryIsStrictWitness ==
    \E k \in Keys : \E e \in last.pre :
        /\ LastFor(k) /\ last.at = e.resetAt /\ last.at > 0
        /\ last.ok
        /\ bucket[k] = [count |-> e.count + 1, resetAt |-> e.resetAt]

\* C17: a call made inside a live window, allowed or denied, leaves resetAt
\* as it is; resetAt changes only when a call made after it re-creates the
\* entry, so denied calls cannot extend the window and the first call made
\* after the resetAt of a key is allowed.
ResetAtFixedInWindow ==
    [][ \A k \in DOMAIN bucket :
          /\ bucket'[k].resetAt # bucket[k].resetAt =>
                /\ now > bucket[k].resetAt
                /\ bucket'[k] = [count |-> 1, resetAt |-> now + windowMs]
          /\ (calls'[k] # calls[k] /\ now > bucket[k].resetAt) =>
                /\ last'.key = k /\ last'.ok
                /\ bucket'[k].resetAt = now + windowMs
      ]_vars

\* a key is denied at an instant after its window began, the end of the
\* window is still the one set when the window began
ResetAtFixedInWindowWitness ==
    \E k \in Keys :
        /\ LastFor(k) /\ ~last.ok
        /\ last.at > bucket[k].resetAt - windowMs
        /\ last.at <= bucket[k].resetAt
        /\ last.pre = {bucket[k]}

\* --------------------------------------------- opener rotator: expiry claims

\* C18: an opener history entry gets resetAt = now + 24h when it is created
\* or re-created after expiry, and no pick made inside the window changes
\* it; the call made after resetAt empties the list, however many picks were
\* made before, and no key ever leaves the map.
HistoryResetAtFixed ==
    [][ /\ \A key \in DOMAIN OPENER_HISTORY :
              /\ Has(OPENER_HISTORY', key)
              /\ OPENER_HISTORY'[key].resetAt # OPENER_HISTORY[key].resetAt =>
                    /\ now > OPENER_HISTORY[key].resetAt
                    /\ OPENER_HISTORY'[key] = [items |-> <<>>, resetAt |-> now + DayMs]
              /\ (op.pc = "idle" /\ op'.pc = "loop" /\ op'.key = key
                     /\ now > OPENER_HISTORY[key].resetAt) =>
                    OPENER_HISTORY'[key] = [items |-> <<>>, resetAt |-> now + DayMs]
        /\ \A key \in DOMAIN OPENER_HISTORY' \ DOMAIN OPENER_HISTORY :
              OPENER_HISTORY'[key] = [items |-> <<>>, resetAt |-> now + DayMs]
      ]_vars

\* a list filled by two picks is emptied by a call made after the resetAt
\* that was set when the entry was created
HistoryResetAtFixedWitness ==
    /\ op.pc = "loop" /\ op.draws = 0 /\ keepLast = 2
    /\ \E e \in op.pre :
          /\ Len(e.items) = 2 /\ e.resetAt = DayMs /\ op.at > e.resetAt
    /\ OPENER_HISTORY[op.key] = [items |-> <<>>, resetAt |-> op.at + DayMs]

\* ------------------------------------------------ rate limiter: burst claims

\* the instants of the run so far
Instants == 0..now

\* C19: the limiter is fixed-window, not sliding. In a time span shorter
\* than windowMs one instance allows a key at most 2 * limit - 1 requests
\* (the end of one window and the start of the next), and an execution in
\* which it allows more than limit in such a span exists.
BurstAtBoundary ==
    \A i \in Instances : \A k \in Keys : \A lo \in Instants : \A hi \in Instants :
        (lo <= hi /\ hi - lo < windowMs) =>
            AllowedBy(i, k, lo, hi) <= 2 * limit - 1

\* limit 2, windowMs 2: one request at the last instant of a window and two
\* at the first instant of the next: three allowed in a span of 1
BurstAtBoundaryWitness ==
    \E i \in Instances : \E k \in Keys : \E t \in Instants :
        /\ limit = 2 /\ windowMs = 2
        /\ t + 1 <= now
        /\ AllowedBy(i, k, t, t + 1) > limit
        /\ AllowedBy(i, k, t, t) >= 1
        /\ fleet[i].bucket[k] = [count |-> limit, resetAt |-> t + 1 + windowMs]

\* ---------------------------------------------------- handler: order claims

\* rateLimitOk has been asked for the invocation, and has allowed it
Asked(q) == q.rl # {}
Allowed(q) == \E rl \in q.rl : rl.ok

\* the body has been parsed and the parameters clamped
Clamped(q) == q.mode # None

\* an opener has been picked; the generation service has been called
Picked(q) == q.opener # NoItem
Generated(q) == q.upstream > 0

\* the invocation has answered
Responded(q) == q.status # 0

\* C20 as stated: the request parameters are extracted and clamped first and
\* the rate limiter is asked after that.
ParamsBeforeLimiter ==
    \A r \in Slots : Asked(req[r]) => Clamped(req[r])

\* C20 amended: for a POST request with an API key the handler asks the rate
\* limiter first, then (only if allowed) parses the body and clamps the
\* parameters, then picks the opener, then calls the generation service,
\* then responds; a step is started only after the one before it is over. A
\* body that is no JSON is answered 400 after the request was counted, and a
\* denied request is answered 429 whatever its body.
LimiterBeforeParams ==
    \A r \in Slots :
        LET q == req[r]
        IN  /\ Clamped(q) => Allowed(q)
            /\ (op.caller = r /\ op.pc = "loop") =>
                  (q.pc = "pick" /\ Clamped(q) /\ ~Picked(q) /\ ~Generated(q))
            /\ Picked(q) => (Clamped(q) /\ op.caller # r)
            /\ Generated(q) => Picked(q)
            /\ q.pc = "awaitUpstream" => (Generated(q) /\ ~Responded(q))
            /\ (Responded(q) /\ q.status = 200 /\ Asked(q)) => Generated(q)
            /\ (Responded(q) /\ q.status = 400) =>
                  (Allowed(q) /\ q.counted >= 1 /\ ~Clamped(q) /\ ~Picked(q))
            /\ (Responded(q) /\ q.status = 429) =>
                  (Asked(q) /\ ~Allowed(q) /\ ~Clamped(q))

\* a request whose body is no JSON is answered 400 and was counted: the
\* limiter was asked before the body was parsed
LimiterBeforeParamsWitness ==
    \E r \in Slots :
        /\ req[r].pc = "done" /\ req[r].status = 400
        /\ Allowed(req[r]) /\ ~Clamped(req[r])
        /\ bucket[req[r].ip].count = req[r].counted
        /\ req[r].counted >= 1

\* ---------------------------------------------------------------- C21

\* the header yields a non-empty value to the left operand: its string, or the
\* first string of its array, has a character other than a blank before the
\* first separator
YieldsTrimmed(x) ==
    \E v \in FirstOf(x) : \E i \in 1..Len(v) :
        /\ v[i] \notin {" ", ","}
        /\ \A j \in 1..i : v[j] # ","

\* the header yields a non-empty value as it stands
YieldsRaw(x) == \E v \in FirstOf(x) : Len(v) > 0

IpDerived == eval.fn = "ip" /\ eval.done

\* C21: whatever the two headers are (absent, empty, array valued, a first
\* list entry that is empty or blank), the key derived for the limiter is a
\* non-empty string, and it is "unknown" whenever x-forwarded-for has no
\* non-blank first entry and x-real-ip has no non-empty value.
KeyNeverEmpty ==
    IpDerived =>
        /\ Len(eval.out) > 0
        /\ (~YieldsTrimmed(eval.args[1]) /\ ~YieldsRaw(eval.args[2]))
                => eval.out = Unknown

\* x-forwarded-for is an array whose first entry is blank and x-real-ip is an
\* empty string: the key is the sentinel
KeyNeverEmptyWitness ==
    /\ IpDerived
    /\ eval.args[1].kind = "array" /\ eval.args[1].list = << <<" ">> >>
    /\ eval.args[2].kind = "string" /\ eval.args[2].str = <<>>
    /\ eval.out = Unknown

\* ---------------------------------------------------------------- C22

\* the arguments (ip, mode) of the call that takes the step
ActingPair == IF op.pc = "idle" THEN op'.args ELSE op.args

\* a step of pickNonRepeatingOpener touches no entry but the one of its key
\* and leaves the rate-limit map alone
OwnEntryOnly ==
    op' # op =>
        LET own == OpenerKey(ActingPair[1], ActingPair[2])
        IN  /\ bucket' = bucket
            /\ DOMAIN OPENER_HISTORY' \subseteq DOMAIN OPENER_HISTORY \cup {own}
            /\ \A k \in DOMAIN OPENER_HISTORY :
                  k # own => /\ Has(OPENER_HISTORY', k)
                             /\ OPENER_HISTORY'[k] = OPENER_HISTORY[k]

\* the list stored under the key of a pair holds what the calls made for that
\* pair returned, and nothing returned to a call for another pair
OwnItemsOnly ==
    \A p \in Pairs :
        LET key == OpenerKey(p[1], p[2])
        IN  IF Has(OPENER_HISTORY, key)
            THEN OPENER_HISTORY[key].items = served[p]
            ELSE served[p] = <<>>

\* C22: a call pickNonRepeatingOpener(mode, ip, ...) changes only the entry
\* of its key ip + ":" + mode, every other entry and the rate-limit map stay
\* as they are, and no two different (ip, mode) pairs with a mode of the
\* closed set share a key: each list holds the items of one pair only.
KeysSeparate == []OwnItemsOnly /\ [][OwnEntryOnly]_vars

\* two calls have returned, for 10.0.0.1 in the morning and for the client
\* 10.0.0.1:morning in the evening: two entries, each with its own item,
\* beside an entry of the rate-limit map
KeysSeparateWitness ==
    /\ Returned /\ picks = 2
    /\ DOMAIN bucket # {}
    /\ DOMAIN OPENER_HISTORY = {"10.0.0.1:morning", "10.0.0.1:morning:evening"}
    /\ op.args = <<"10.0.0.1:morning", "evening">>
    /\ OPENER_HISTORY["10.0.0.1:morning"].items = <<2>>
    /\ OPENER_HISTORY["10.0.0.1:morning:evening"].items = <<1>>

\* ---------------------------------------------------- filtering handler: claims

\* the filter of the request's language flags the text
Flagged(language, text) ==
    \/ language = "es" /\ \E i \in DOMAIN text : text[i] = "t"
    \/ language = "en" /\ \E i \in DOMAIN text : text[i] \in {"b", "B"}

\* the regeneration call has been made
Regenerated == gen.calls >= 2

Answered(code) == gen.pc = "done" /\ gen.status = code

\* C23: a request makes at most two generation calls, the first and at most
\* one regeneration; the regeneration is made only when the first text is
\* non-empty and flagged by the filter of the request's language.
AtMostOneRegeneration ==
    /\ gen.calls <= 2
    /\ gen.pc \in {"regenEs", "regenEn"} => gen.calls = 1
    /\ (Regenerated \/ gen.pc \in {"regenEs", "regenEn"}) =>
           \E t \in gen.first : t # <<>> /\ Flagged(gen.language, t)
    /\ gen.pc = "regenEs" => gen.language = "es"
    /\ gen.pc = "regenEn" => gen.language = "en"

\* a Spanish request whose first text holds phrases of both filters has been
\* regenerated once and answered with an alternative that the English filter
\* would flag
AtMostOneRegenerationWitness ==
    /\ Answered(200) /\ gen.calls = 2
    /\ gen.language = "es"
    /\ gen.first = {<<"t", "B">>}
    /\ gen.text = <<"b">>

\* C24: when the regeneration throws, returns an empty text or returns a text
\* the filter flags, the answer is 200 with the first text; the answer holds
\* the regenerated text only when that is non-empty and passes the filter;
\* no outcome of the regeneration gives a 502.
RegenerationNeverFails ==
    (Regenerated /\ gen.pc = "done") =>
        /\ gen.status = 200
        /\ \A t \in gen.first :
              /\ gen.threw => gen.text = t
              /\ \A alt \in gen.alt :
                    gen.text = IF alt # <<>> /\ ~Flagged(gen.language, alt)
                               THEN alt ELSE t

\* the regeneration of an English request threw: answered 200 with the
\* flagged first text
RegenerationNeverFailsWitness ==
    /\ Answered(200) /\ gen.calls = 2 /\ gen.threw
    /\ gen.language = "en"
    /\ gen.first = {<<"B">>} /\ gen.text = <<"B">>

\* C30: after the first emptiness check text is never empty, so no request is
\* answered 502 "Empty response after filtering": a request that gets past
\* the first check is answered 200.
TextNeverEmptyAfterCheck ==
    /\ gen.error # "Empty response after filtering"
    /\ (gen.pc \in {"regenEs", "regenEn"} \/ Regenerated) => gen.text # <<>>
    /\ (gen.pc = "done" /\ gen.calls >= 1 /\ gen.error \notin
            {"Upstream AI error", "Empty response from model"}) =>
           gen.status = 200 /\ gen.text # <<>>

\* the regeneration returned undefined: the alternative is empty, the first
\* text stays and is the answer
TextNeverEmptyAfterCheckWitness ==
    /\ Answered(200) /\ gen.calls = 2
    /\ gen.alt = {<<>>}
    /\ gen.text # <<>> /\ gen.first = {gen.text}

\* ---------------------------------------------------------------- C25

OpenerAnswered == eval.fn = "opener" /\ eval.done /\ eval.out.status = 200

\* C25: the text of every 200 answer of the fixed-opener handler starts with
\* the first sentence (the opener, after the name when the name is
\* included); an output that starts with it is returned as it is (trimmed),
\* any other non-empty output follows the first sentence and one blank.
AnswerStartsWithOpener ==
    OpenerAnswered =>
        LET fs == eval.out.fs
            text == eval.args[4]
            opener == eval.args[3]
            tail == SubSeq(eval.out.text, Len(fs) + 1, Len(eval.out.text))
        IN  /\ startsWith(eval.out.text, fs)
            /\ IF eval.args[2]
               THEN /\ fs[Len(fs) - Len(opener)] = " "
                    /\ SubSeq(fs, Len(fs) - Len(opener) + 2, Len(fs))
                         = SubSeq(opener, 2, Len(opener))
                    /\ fs[1] # " "
               ELSE fs = opener
            /\ startsWith(text, fs) => eval.out.text = text
            /\ ~startsWith(text, fs) => tail = <<" ">> \o text

\* the name of the request is about as long as the cut and ends in a blank
\* once cut; the output does not start with the first sentence and is
\* returned after it
AnswerStartsWithOpenerWitness ==
    /\ OpenerAnswered
    /\ eval.args[2]
    /\ Len(eval.args[1].str) > NameCut
    /\ eval.out.fs[NameCut] = " "
    /\ eval.args[4] = <<"O", "a">>
    /\ eval.out.text = eval.out.fs \o <<" ", "O", "a">>

\* ---------------------------------------------------------------- C26

\* the table of the claim
IntentOf(mode) ==
    CASE mode = "morning" -> "orient"
      [] mode = "afternoon" -> "act"
      [] mode = "evening" -> "close"
      [] mode = "bedtime" -> "rest"

\* C26: every request gets the intent of its mode by one fixed table --
\* morning to orient, afternoon to act, evening to close, bedtime to rest --
\* whatever was asked before, a mode outside the closed set counting as
\* morning.
IntentTable ==
    eval.fn = "intent" =>
        \A i \in DOMAIN eval.out :
            LET e == eval.out[i]
            IN  /\ e.mode = (IF e.x \in Modes THEN e.x ELSE "morning")
                /\ e.intent = IntentOf(e.mode)

\* ---------------------------------------------------------------- C27

\* C27: with a fixed limit L >= 1 every stored entry has 1 <= count <= L,
\* every returned remaining is in 0..L-1, and after an allowed call
\* remaining = L - count of the entry of its key.
CountAndRemainingInRange ==
    /\ \A k \in DOMAIN bucket : 1 <= bucket[k].count /\ bucket[k].count <= limit
    /\ last.key # None =>
          /\ 0 <= last.remaining /\ last.remaining <= limit - 1
          /\ last.ok => /\ Has(bucket, last.key)
                        /\ last.remaining = limit - bucket[last.key].count

\* limit 3: the second call of a window is allowed with remaining 1, beside
\* the entry of another key
CountAndRemainingInRangeWitness ==
    /\ limit = 3 /\ last.ok /\ last.remaining = 1
    /\ bucket[last.key].count = 2
    /\ \E k \in DOMAIN bucket : k # last.key

\* ---------------------------------------------------------------- C28

\* C28: for one key, a fixed limit and a clock that never goes back, the
\* requests an instance allows at the instants of any interval of length
\* windowMs are at most 2 * limit: the interval meets at most two windows.
TwoWindowsBound ==
    \A i \in Instances : \A k \in Keys : \A lo \in Instants :
        AllowedBy(i, k, lo, lo + windowMs) <= 2 * limit

\* limit 2, windowMs 2: an interval of length 2 that has ended holds the
\* second request of one window and both requests of the next, more than
\* limit and within the bound
TwoWindowsBoundWitness ==
    \E i \in Instances : \E k \in Keys : \E lo \in Instants :
        /\ limit = 2 /\ windowMs = 2
        /\ lo + windowMs <= now
        /\ AllowedBy(i, k, lo, lo + windowMs) = 3
        /\ AllowedBy(i, k, lo + windowMs, lo + windowMs) = 2
        /\ AllowedBy(i, k, lo - 1, lo - 1) = 1

\* ---------------------------------------------------------------- C29

\* the invocation is answered in this step
AnswersNow(r) == req[r].status = 0 /\ req'[r].status # 0

\* no entry is removed, and the count of an entry whose window goes on does
\* not decrease
CountKept ==
    \A k \in DOMAIN bucket :
        /\ Has(bucket', k)
        /\ bucket'[k].resetAt = bucket[k].resetAt => bucket'[k].count >= bucket[k].count

\* a step that answers 400 or 502 answers a request the limiter allowed and
\* counted, and takes nothing back: the 400 is given in the turn of the
\* limiter, whose count it leaves in the map, the 502 leaves the map alone
FailureCounted(r) ==
    (AnswersNow(r) /\ req'[r].status \in {400, 502}) =>
        /\ Allowed(req'[r])
        /\ req'[r].counted >= 1
        /\ IF req'[r].status = 400
           THEN /\ bucket'[req'[r].ip].count = req'[r].counted
                /\ \/ ~Has(bucket, req'[r].ip)
                   \/ bucket'[req'[r].ip].count = 1
                   \/ bucket'[req'[r].ip].count = bucket[req'[r].ip].count + 1
           ELSE bucket' = bucket

\* a request answered in the turn it arrives in (OPTIONS, a method other than
\* POST, no API key) has not reached the limiter and leaves the map alone
EarlyExit(r) ==
    (req[r].pc = "free" /\ AnswersNow(r)) =>
        /\ req'[r].status \in {200, 405, 500}
        /\ ~Asked(req'[r])
        /\ bucket' = bucket

\* C29: a slot consumed by an allowed request is never given back. Within a
\* live window the stored count never decreases; a request that passed the
\* limiter and ends with 400 or 502 stays counted; OPTIONS, non-POST and
\* missing-API-key requests are answered before the limiter and change
\* nothing in the map.
SlotNeverGivenBack ==
    [][CountKept /\ \A r \in Slots : FailureCounted(r) /\ EarlyExit(r)]_vars

\* a request counted first in its window waited while a second one was
\* counted and left; now it is answered 502 and the count of the window still
\* holds both
SlotNeverGivenBackWitness ==
    \E r \in Slots : \E k \in DOMAIN bucket :
        /\ req[r].status = 502 /\ req[r].ip = k /\ Allowed(req[r])
        /\ req[r].counted = 1
        /\ bucket[k].count = 2
        /\ started = 2
        /\ \A q \in Slots \ {r} : req[q].pc = "free"

====
